---- MODULE Spec2Model ----
(***************************************************************************)
(* GlobalShortcuts (lib/src/global_shortcuts.py): the evdev hotkey engine. *)
(* Times are milliseconds.  Strings are sequences of one-character         *)
(* strings, so that lower(), strip(), replace() and split() are computed.  *)
(***************************************************************************)
EXTENDS Integers, Sequences, FiniteSets, TLC

VARIABLES
    primary_key,        \* self.primary_key
    target_keys,        \* self.target_keys
    devices,            \* self.devices
    device_fds,         \* self.device_fds (its keys)
    listener_thread,    \* self.listener_thread (0: None)
    is_running,         \* self.is_running
    stop_event,         \* self.stop_event
    pressed_keys,       \* self.pressed_keys
    last_trigger_time,  \* self.last_trigger_time
    combination_active, \* self.combination_active
    last_release_time,  \* self.last_release_time
    now,                \* time.time()
    held,               \* per open keyboard: the keys physically down on it (SpecHeld)
    wpc,                \* per poll-loop thread: where it is in _event_loop
    activations,        \* callback threads started by _trigger_callback
    deactivations,      \* callback threads started by _trigger_release_callback
    last_event,         \* the key event _process_event handled last
    cpc,                \* per external caller thread: where it is in start()/stop()
    cret,               \* per external caller thread: what its last call returned
    policy,             \* poll-loop thread: the branch taken at len(self.target_keys) == 1
    evaluated,          \* the policy and the target set of the latest match evaluation
    update_call,        \* the update_shortcut call in progress and its locals
    status_call,        \* the get_status call in progress and what it has read
    cb_ended            \* callback threads that have ended

engine == <<pressed_keys, last_trigger_time, combination_active,
            last_release_time, activations, deactivations, last_event>>
config == <<primary_key, target_keys>>
life == <<devices, device_fds, listener_thread, is_running, stop_event, wpc>>
threads == <<policy, evaluated, update_call, status_call, cb_ended>>
callers == <<cpc, cret, threads>>
vars == <<primary_key, target_keys, devices, device_fds, listener_thread,
          is_running, stop_event, pressed_keys, last_trigger_time,
          combination_active, last_release_time, now, held, wpc,
          activations, deactivations, last_event, cpc, cret, policy,
          evaluated, update_call, status_call, cb_ended>>

----------------------------------------------------------------------------
(* Bounds of the model *)

MaxTicks == 3
MaxWorkers == 2
MaxTokens == 2
StartTime == 1000

(* Program constants *)

debounce_time == 500
None == -1

KEY_LEFTCTRL == 29
KEY_D == 32
KEY_F12 == 88

Keys == {KEY_LEFTCTRL, KEY_D, KEY_F12}
Devs == {"kbdA", "kbdB"}
Workers == 1..MaxWorkers
Callers == {"t1", "t2"}

\* The clock advances in half debounce windows: differences of 0, 250, 500
\* and 750 ms fall below, on and above the window.
HalfWindow == debounce_time \div 2

----------------------------------------------------------------------------
(* str methods used by the parser *)

UpperChars == <<"A","B","C","D","E","F","G","H","I","J","K","L","M",
                "N","O","P","Q","R","S","T","U","V","W","X","Y","Z">>
LowerChars == <<"a","b","c","d","e","f","g","h","i","j","k","l","m",
                "n","o","p","q","r","s","t","u","v","w","x","y","z">>
Whitespace == {" ", "\t"}

lower_char(c) ==
    IF \E i \in 1..26 : UpperChars[i] = c
    THEN LowerChars[CHOOSE i \in 1..26 : UpperChars[i] = c]
    ELSE c

upper_char(c) ==
    IF \E i \in 1..26 : LowerChars[i] = c
    THEN UpperChars[CHOOSE i \in 1..26 : LowerChars[i] = c]
    ELSE c

\* Faulty variant: the casing is kept.
str_lower_keeps_case(s) == s

str_lower(s) == [i \in 1..Len(s) |-> lower_char(s[i])]
str_upper(s) == [i \in 1..Len(s) |-> upper_char(s[i])]

str_strip(s) ==
    LET keep == {i \in 1..Len(s) : s[i] \notin Whitespace}
        Min(S) == CHOOSE x \in S : \A y \in S : x <= y
        Max(S) == CHOOSE x \in S : \A y \in S : x >= y
    IN IF keep = {} THEN <<>> ELSE SubSeq(s, Min(keep), Max(keep))

str_remove(s, c) ==
    LET Keep(x) == x # c IN SelectSeq(s, Keep)

RECURSIVE str_split(_, _)
str_split(s, sep) ==
    LET at == {i \in 1..Len(s) : s[i] = sep}
    IN IF at = {}
       THEN <<s>>
       ELSE LET i == CHOOSE x \in at : \A y \in at : x <= y
            IN <<SubSeq(s, 1, i - 1)>> \o str_split(SubSeq(s, i + 1, Len(s)), sep)

str_startswith(s, p) ==
    Len(s) >= Len(p) /\ SubSeq(s, 1, Len(p)) = p

KEY_ == <<"K","E","Y","_">>

----------------------------------------------------------------------------
(* The name tables (an excerpt of KEY_ALIASES and of evdev's ecodes) *)

KEY_ALIASES ==
    (<<"c","t","r","l">> :> <<"K","E","Y","_","L","E","F","T","C","T","R","L">>) @@
    (<<"c","o","n","t","r","o","l">> :> <<"K","E","Y","_","L","E","F","T","C","T","R","L">>) @@
    (<<"l","c","t","r","l">> :> <<"K","E","Y","_","L","E","F","T","C","T","R","L">>) @@
    (<<"f","1","2">> :> <<"K","E","Y","_","F","1","2">>)

ecodes ==
    (<<"K","E","Y","_","L","E","F","T","C","T","R","L">> :> KEY_LEFTCTRL) @@
    (<<"K","E","Y","_","D">> :> KEY_D) @@
    (<<"K","E","Y","_","F","1","2">> :> KEY_F12)

string_to_keycode(key_string0) ==
    LET key_string == str_strip(str_lower(key_string0))
        key_name == IF key_string \in DOMAIN KEY_ALIASES
                    THEN KEY_ALIASES[key_string]
                    ELSE LET up == str_upper(key_string)
                         IN IF str_startswith(up, KEY_) THEN up ELSE KEY_ \o up
    IN IF key_name \in DOMAIN ecodes THEN ecodes[key_name] ELSE None

\* Faulty variant: no default when no part resolves.
parse_key_combination_no_default(key_string) ==
    LET key_lower == str_remove(str_remove(str_strip(str_lower(key_string)), "<"), ">")
        parts == str_split(key_lower, "+")
    IN {string_to_keycode(str_strip(parts[i])) : i \in 1..Len(parts)} \ {None}

parse_key_combination(key_string) ==
    LET key_lower == str_remove(str_remove(str_strip(str_lower(key_string)), "<"), ">")
        parts == str_split(key_lower, "+")
        keys == {string_to_keycode(str_strip(parts[i])) : i \in 1..Len(parts)} \ {None}
    IN IF keys = {} THEN {KEY_F12} ELSE keys

\* The combination strings the engine is constructed or updated with.
S_f12 == <<"<","f","1","2",">">>
S_CtrlD == <<"C","t","r","l","+","D">>
Shortcuts == {S_f12, S_CtrlD}

----------------------------------------------------------------------------
(* Construction *)

NoUpdate == [pc |-> "idle", new_key |-> <<>>, new_target_keys |-> {}]
NoStatus == [pc |-> "idle", primary_key |-> <<>>, target_keys |-> {}]
NoKeys == [d \in Devs |-> {}]

\* __init__: the fields as assigned, then the parse of primary_key and one
\* discovery pass.  Both callbacks are registered.  The keyboards found are
\* whatever the host exposes at that moment.
Init ==
    /\ primary_key \in Shortcuts
    /\ target_keys = parse_key_combination(primary_key)
    /\ devices \in SUBSET Devs
    /\ device_fds = devices
    /\ listener_thread = 0
    /\ is_running = FALSE
    /\ stop_event = FALSE
    /\ pressed_keys = {}
    /\ last_trigger_time = 0
    /\ combination_active = FALSE
    /\ last_release_time = 0
    /\ now = StartTime
    /\ held = NoKeys
    /\ wpc = [w \in Workers |-> "unborn"]
    /\ activations = 0
    /\ deactivations = 0
    /\ last_event = <<"none", None>>
    /\ cpc = [c \in Callers |-> "idle"]
    /\ cret = [c \in Callers |-> "none"]
    /\ policy = "none"
    /\ evaluated = <<"none", {}>>
    /\ update_call = NoUpdate
    /\ status_call = NoStatus
    /\ cb_ended = 0

----------------------------------------------------------------------------
(* The state machine: _process_event and what it calls *)

\* Faulty variant: issubset for every target size.
keys_match_always_subset(target, pressed) == target \subseteq pressed

\* Faulty variant: equality for every target size.
keys_match_always_equal(target, pressed) == target = pressed

\* Faulty variant: one pressed target key is enough.
keys_match_any_key(target, pressed) == target \cap pressed # {}

\* len(target_keys) == 1: equality; otherwise issubset.
keys_match(target, pressed) ==
    IF Cardinality(target) = 1
    THEN target = pressed
    ELSE target \subseteq pressed

trigger_callback == activations' = activations + 1

trigger_release_callback == deactivations' = deactivations + 1

\* Faulty variant: the test of combination_active is missing.
check_shortcut_combination_refires(pressed) ==
    IF keys_match(target_keys, pressed)
    THEN IF now - last_trigger_time > debounce_time
         THEN /\ last_trigger_time' = now
              /\ combination_active' = TRUE
              /\ trigger_callback
         ELSE UNCHANGED <<last_trigger_time, combination_active, activations>>
    ELSE /\ combination_active' = FALSE
         /\ UNCHANGED <<last_trigger_time, activations>>

\* Faulty variant: >= for > in the debounce test.
check_shortcut_combination_ge(pressed) ==
    IF keys_match(target_keys, pressed)
    THEN IF ~combination_active /\ now - last_trigger_time >= debounce_time
         THEN /\ last_trigger_time' = now
              /\ combination_active' = TRUE
              /\ trigger_callback
         ELSE UNCHANGED <<last_trigger_time, combination_active, activations>>
    ELSE /\ combination_active' = FALSE
         /\ UNCHANGED <<last_trigger_time, activations>>

\* Faulty variant: a Down event that leaves the combination unmatched keeps
\* the state.
check_shortcut_combination_keeps_state(pressed) ==
    IF keys_match(target_keys, pressed)
    THEN IF ~combination_active /\ now - last_trigger_time > debounce_time
         THEN /\ last_trigger_time' = now
              /\ combination_active' = TRUE
              /\ trigger_callback
         ELSE UNCHANGED <<last_trigger_time, combination_active, activations>>
    ELSE UNCHANGED <<last_trigger_time, combination_active, activations>>

\* Faulty variant: the activation is debounced against both clocks.
check_shortcut_combination_both_clocks(pressed) ==
    IF keys_match(target_keys, pressed)
    THEN IF /\ ~combination_active
            /\ now - last_trigger_time > debounce_time
            /\ now - last_release_time > debounce_time
         THEN /\ last_trigger_time' = now
              /\ combination_active' = TRUE
              /\ trigger_callback
         ELSE UNCHANGED <<last_trigger_time, combination_active, activations>>
    ELSE /\ combination_active' = FALSE
         /\ UNCHANGED <<last_trigger_time, activations>>

check_shortcut_combination(pressed) ==
    IF keys_match(target_keys, pressed)
    THEN IF ~combination_active /\ now - last_trigger_time > debounce_time
         THEN /\ last_trigger_time' = now
              /\ combination_active' = TRUE
              /\ trigger_callback
         ELSE UNCHANGED <<last_trigger_time, combination_active, activations>>
    ELSE /\ combination_active' = FALSE
         /\ UNCHANGED <<last_trigger_time, activations>>

\* Faulty variant: combination_active is not reset.
check_combination_release_stays_active(was_combination_active, pressed) ==
    IF was_combination_active /\ ~(target_keys \subseteq pressed)
    THEN IF now - last_release_time > debounce_time
         THEN /\ last_release_time' = now
              /\ UNCHANGED combination_active
              /\ trigger_release_callback
         ELSE UNCHANGED <<last_release_time, combination_active, deactivations>>
    ELSE UNCHANGED <<last_release_time, combination_active, deactivations>>

\* Faulty variant: the release is debounced against last_trigger_time.
check_combination_release_wrong_clock(was_combination_active, pressed) ==
    IF was_combination_active /\ ~(target_keys \subseteq pressed)
    THEN IF now - last_trigger_time > debounce_time
         THEN /\ last_release_time' = now
              /\ combination_active' = FALSE
              /\ trigger_release_callback
         ELSE UNCHANGED <<last_release_time, combination_active, deactivations>>
    ELSE UNCHANGED <<last_release_time, combination_active, deactivations>>

\* Faulty variant: the issubset test is missing.
check_combination_release_any_key(was_combination_active, pressed) ==
    IF was_combination_active
    THEN IF now - last_release_time > debounce_time
         THEN /\ last_release_time' = now
              /\ combination_active' = FALSE
              /\ trigger_release_callback
         ELSE UNCHANGED <<last_release_time, combination_active, deactivations>>
    ELSE UNCHANGED <<last_release_time, combination_active, deactivations>>

\* Faulty variant: the test of was_combination_active is missing.
check_combination_release_ignores_state(was_combination_active, pressed) ==
    IF ~(target_keys \subseteq pressed)
    THEN IF now - last_release_time > debounce_time
         THEN /\ last_release_time' = now
              /\ combination_active' = FALSE
              /\ trigger_release_callback
         ELSE UNCHANGED <<last_release_time, combination_active, deactivations>>
    ELSE UNCHANGED <<last_release_time, combination_active, deactivations>>

\* Faulty variant: >= for > in the release debounce test.
check_combination_release_ge(was_combination_active, pressed) ==
    IF was_combination_active /\ ~(target_keys \subseteq pressed)
    THEN IF now - last_release_time >= debounce_time
         THEN /\ last_release_time' = now
              /\ combination_active' = FALSE
              /\ trigger_release_callback
         ELSE UNCHANGED <<last_release_time, combination_active, deactivations>>
    ELSE UNCHANGED <<last_release_time, combination_active, deactivations>>

check_combination_release(was_combination_active, pressed) ==
    IF was_combination_active /\ ~(target_keys \subseteq pressed)
    THEN IF now - last_release_time > debounce_time
         THEN /\ last_release_time' = now
              /\ combination_active' = FALSE
              /\ trigger_release_callback
         ELSE UNCHANGED <<last_release_time, combination_active, deactivations>>
    ELSE UNCHANGED <<last_release_time, combination_active, deactivations>>

\* keystate == key_down
process_event_down(code) ==
    /\ pressed_keys' = pressed_keys \cup {code}
    /\ check_shortcut_combination(pressed_keys \cup {code})
    /\ UNCHANGED <<last_release_time, deactivations>>

\* keystate == key_up
process_event_up(code) ==
    /\ pressed_keys' = pressed_keys \ {code}
    /\ check_combination_release(combination_active, pressed_keys \ {code})
    /\ UNCHANGED <<last_trigger_time, activations>>

remove_device(device) ==
    /\ devices' = devices \ {device}
    /\ device_fds' = device_fds \ {device}
    /\ held' = [held EXCEPT ![device] = {}]

----------------------------------------------------------------------------
(* The poll loop, one read event per step.  A device delivers any stream of
   Down and Up events. *)

\* Faulty variant: the callback is called in the poll-loop thread, which
\* goes on only when every callback has ended.
Polling_after_callbacks(w) ==
    /\ wpc[w] = "loop"
    /\ ~stop_event
    /\ cb_ended = activations + deactivations

Polling(w) == wpc[w] = "loop" /\ ~stop_event

Readable(d) == d \in devices /\ d \in device_fds

KeyDown(d, code) ==
    /\ \E w \in Workers : Polling(w)
    /\ Readable(d)
    /\ process_event_down(code)
    /\ last_event' = <<"down", code>>
    /\ UNCHANGED <<config, life, now, held, callers>>

KeyUp(d, code) ==
    /\ \E w \in Workers : Polling(w)
    /\ Readable(d)
    /\ process_event_up(code)
    /\ last_event' = <<"up", code>>
    /\ UNCHANGED <<config, life, now, held, callers>>

\* device.read() raises OSError
ReadFailure(d) ==
    /\ \E w \in Workers : Polling(w)
    /\ Readable(d)
    /\ remove_device(d)
    /\ UNCHANGED <<config, listener_thread, is_running, stop_event, wpc,
                   engine, now, callers>>

Tick ==
    /\ now < StartTime + MaxTicks * HalfWindow
    /\ now' = now + HalfWindow
    /\ UNCHANGED <<config, life, engine, held, callers>>

----------------------------------------------------------------------------
(* The lifecycle calls, each as one step *)

\* threading.Thread(...): the next thread not yet created.
NewThread(w) ==
    /\ wpc[w] = "unborn"
    /\ \A v \in Workers : v < w => wpc[v] # "unborn"

\* Faulty variant: the update resets the pressed keys and the state.
update_shortcut_resets(new_key) ==
    /\ primary_key' = new_key
    /\ target_keys' = parse_key_combination(new_key)
    /\ pressed_keys' = {}
    /\ combination_active' = FALSE
    /\ UNCHANGED <<life, last_trigger_time, last_release_time, activations,
                   deactivations, last_event, now, held, callers>>

update_shortcut(new_key) ==
    /\ primary_key' = new_key
    /\ target_keys' = parse_key_combination(new_key)
    /\ UNCHANGED <<life, engine, now, held, callers>>

\* start() of a stopped engine.  found: what _discover_keyboards finds if it
\* is called.  Without devices start() returns False and nothing is started.
start(found) ==
    /\ ~is_running
    /\ LET devs == IF devices = {} THEN found ELSE devices
       IN /\ devices' = devs
          /\ device_fds' = IF devices = {} THEN found ELSE device_fds
          /\ held' = IF devices = {} THEN NoKeys ELSE held
          /\ IF devs = {}
             THEN UNCHANGED <<stop_event, listener_thread, wpc, is_running>>
             ELSE \E w \in Workers :
                    /\ NewThread(w)
                    /\ stop_event' = FALSE
                    /\ listener_thread' = w
                    /\ wpc' = [wpc EXCEPT ![w] = "loop"]
                    /\ is_running' = TRUE
    /\ UNCHANGED <<config, engine, now, callers>>

\* stop() of a running engine whose join() returns with the thread ended.
stop ==
    /\ is_running
    /\ stop_event' = TRUE
    /\ wpc' = [w \in Workers |-> IF wpc[w] = "loop" THEN "dead" ELSE wpc[w]]
    /\ devices' = {}
    /\ device_fds' = {}
    /\ held' = NoKeys
    /\ is_running' = FALSE
    /\ pressed_keys' = {}
    /\ UNCHANGED <<config, listener_thread, last_trigger_time,
                   combination_active, last_release_time, activations,
                   deactivations, last_event, now, callers>>

Next ==
    \/ \E d \in Devs, code \in Keys : KeyDown(d, code)
    \/ \E d \in Devs, code \in Keys : KeyUp(d, code)
    \/ \E d \in Devs : ReadFailure(d)
    \/ Tick
    \/ \E s \in Shortcuts : update_shortcut(s)
    \/ \E found \in SUBSET Devs : start(found)
    \/ stop

Spec == Init /\ [][Next]_vars

----------------------------------------------------------------------------
(* Keyboards with key state: a key goes down on a keyboard only when it is up
   there and up only when it is down there; the poll loop reads each
   transition.  An evicted keyboard delivers nothing more. *)

KbdDown(d, code) ==
    /\ \E w \in Workers : Polling(w)
    /\ Readable(d)
    /\ code \notin held[d]
    /\ held' = [held EXCEPT ![d] = @ \cup {code}]
    /\ process_event_down(code)
    /\ last_event' = <<"down", code>>
    /\ UNCHANGED <<config, life, now, callers>>

KbdUp(d, code) ==
    /\ \E w \in Workers : Polling(w)
    /\ Readable(d)
    /\ code \in held[d]
    /\ held' = [held EXCEPT ![d] = @ \ {code}]
    /\ process_event_up(code)
    /\ last_event' = <<"up", code>>
    /\ UNCHANGED <<config, life, now, callers>>

NextHeld ==
    \/ \E d \in Devs, code \in Keys : KbdDown(d, code)
    \/ \E d \in Devs, code \in Keys : KbdUp(d, code)
    \/ \E d \in Devs : ReadFailure(d)
    \/ Tick
    \/ \E found \in SUBSET Devs : start(found)

SpecHeld == Init /\ [][NextHeld]_vars

----------------------------------------------------------------------------
(* start() and stop() called from external threads, statement by statement,
   beside the poll-loop threads.  No lock guards any of the fields.  The
   keyboards are idle: every select() times out. *)

is_alive(w) == w # 0 /\ wpc[w] \in {"loop", "poll"}

Return(c, value) ==
    /\ cpc' = [cpc EXCEPT ![c] = "idle"]
    /\ cret' = [cret EXCEPT ![c] = value]
    /\ UNCHANGED threads

Goto(c, label) ==
    /\ cpc' = [cpc EXCEPT ![c] = label]
    /\ UNCHANGED <<cret, threads>>

CallStart(c) ==
    /\ cpc[c] = "idle"
    /\ Goto(c, "start_check")
    /\ UNCHANGED <<config, life, engine, now, held>>

CallStop(c) ==
    /\ cpc[c] = "idle"
    /\ Goto(c, "stop_check")
    /\ UNCHANGED <<config, life, engine, now, held>>

\* if self.is_running: return True
StartCheck(c) ==
    /\ cpc[c] = "start_check"
    /\ IF is_running THEN Return(c, "True") ELSE Goto(c, "start_discover")
    /\ UNCHANGED <<config, life, engine, now, held>>

\* Faulty variant: the discovery pass runs whatever self.devices holds.
StartDiscover_always(c, found) ==
    /\ cpc[c] = "start_discover"
    /\ devices' = found
    /\ device_fds' = found
    /\ Goto(c, "start_nodev")
    /\ UNCHANGED <<config, listener_thread, is_running, stop_event, wpc,
                   engine, now, held>>

\* if not self.devices: self._discover_keyboards()
StartDiscover(c, found) ==
    /\ cpc[c] = "start_discover"
    /\ devices' = IF devices = {} THEN found ELSE devices
    /\ device_fds' = IF devices = {} THEN found ELSE device_fds
    /\ Goto(c, "start_nodev")
    /\ UNCHANGED <<config, listener_thread, is_running, stop_event, wpc,
                   engine, now, held>>

\* if not self.devices: return False
StartNoDevices(c) ==
    /\ cpc[c] = "start_nodev"
    /\ IF devices = {} THEN Return(c, "False") ELSE Goto(c, "start_clear")
    /\ UNCHANGED <<config, life, engine, now, held>>

\* self.stop_event.clear()
StartClear(c) ==
    /\ cpc[c] = "start_clear"
    /\ stop_event' = FALSE
    /\ Goto(c, "start_thread")
    /\ UNCHANGED <<config, devices, device_fds, listener_thread, is_running,
                   wpc, engine, now, held>>

\* self.listener_thread = threading.Thread(...); self.listener_thread.start()
StartThread(c) ==
    /\ cpc[c] = "start_thread"
    /\ \E w \in Workers :
         /\ NewThread(w)
         /\ listener_thread' = w
         /\ wpc' = [wpc EXCEPT ![w] = "loop"]
    /\ Goto(c, "start_flag")
    /\ UNCHANGED <<config, devices, device_fds, is_running, stop_event,
                   engine, now, held>>

\* self.is_running = True; return True
StartFlag(c) ==
    /\ cpc[c] = "start_flag"
    /\ is_running' = TRUE
    /\ Return(c, "True")
    /\ UNCHANGED <<config, devices, device_fds, listener_thread, stop_event,
                   wpc, engine, now, held>>

\* if not self.is_running: return
StopCheck(c) ==
    /\ cpc[c] = "stop_check"
    /\ IF is_running THEN Goto(c, "stop_set") ELSE Return(c, "None")
    /\ UNCHANGED <<config, life, engine, now, held>>

\* self.stop_event.set()
StopSet(c) ==
    /\ cpc[c] = "stop_set"
    /\ stop_event' = TRUE
    /\ Goto(c, "stop_join")
    /\ UNCHANGED <<config, devices, device_fds, listener_thread, is_running,
                   wpc, engine, now, held>>

\* if self.listener_thread and self.listener_thread.is_alive():
\*     self.listener_thread.join(timeout=1.0)
\* join() returns when the thread has ended, or after the timeout with the
\* thread still alive.
StopJoin(c) ==
    /\ cpc[c] = "stop_join"
    /\ Goto(c, "stop_close")
    /\ UNCHANGED <<config, life, engine, now, held>>

\* for device in self.devices[:]: self._remove_device(device)
StopClose(c) ==
    /\ cpc[c] = "stop_close"
    /\ devices' = {}
    /\ device_fds' = {}
    /\ Goto(c, "stop_flag")
    /\ UNCHANGED <<config, listener_thread, is_running, stop_event, wpc,
                   engine, now, held>>

\* self.is_running = False
StopFlag(c) ==
    /\ cpc[c] = "stop_flag"
    /\ is_running' = FALSE
    /\ Goto(c, "stop_clear")
    /\ UNCHANGED <<config, devices, device_fds, listener_thread, stop_event,
                   wpc, engine, now, held>>

\* self.pressed_keys.clear()
StopClear(c) ==
    /\ cpc[c] = "stop_clear"
    /\ pressed_keys' = {}
    /\ Return(c, "None")
    /\ UNCHANGED <<config, life, last_trigger_time, combination_active,
                   last_release_time, activations, deactivations, last_event,
                   now, held>>

\* while not self.stop_event.is_set(): the thread ends when the event is set
LoopTest(w) ==
    /\ wpc[w] = "loop"
    /\ wpc' = [wpc EXCEPT ![w] = IF stop_event THEN "dead" ELSE "poll"]
    /\ UNCHANGED <<config, devices, device_fds, listener_thread, is_running,
                   stop_event, engine, now, held, callers>>

\* time.sleep(0.1) without devices, select(..., 0.1) with them: nothing ready
LoopWait(w) ==
    /\ wpc[w] = "poll"
    /\ wpc' = [wpc EXCEPT ![w] = "loop"]
    /\ UNCHANGED <<config, devices, device_fds, listener_thread, is_running,
                   stop_event, engine, now, held, callers>>

NextLife ==
    \/ \E c \in Callers : CallStart(c)
    \/ \E c \in Callers : CallStop(c)
    \/ \E c \in Callers : StartCheck(c)
    \/ \E c \in Callers, found \in SUBSET Devs : StartDiscover(c, found)
    \/ \E c \in Callers : StartNoDevices(c)
    \/ \E c \in Callers : StartClear(c)
    \/ \E c \in Callers : StartThread(c)
    \/ \E c \in Callers : StartFlag(c)
    \/ \E c \in Callers : StopCheck(c)
    \/ \E c \in Callers : StopSet(c)
    \/ \E c \in Callers : StopJoin(c)
    \/ \E c \in Callers : StopClose(c)
    \/ \E c \in Callers : StopFlag(c)
    \/ \E c \in Callers : StopClear(c)
    \/ \E w \in Workers : LoopTest(w)
    \/ \E w \in Workers : LoopWait(w)

SpecLife == Init /\ [][NextLife]_vars

\* start() and stop() called one after the other from a single thread
NextSeq ==
    \/ CallStart("t1")
    \/ CallStop("t1")
    \/ StartCheck("t1")
    \/ \E found \in SUBSET Devs : StartDiscover("t1", found)
    \/ StartNoDevices("t1")
    \/ StartClear("t1")
    \/ StartThread("t1")
    \/ StartFlag("t1")
    \/ StopCheck("t1")
    \/ StopSet("t1")
    \/ StopJoin("t1")
    \/ StopClose("t1")
    \/ StopFlag("t1")
    \/ StopClear("t1")
    \/ \E w \in Workers : LoopTest(w)
    \/ \E w \in Workers : LoopWait(w)

SpecSeq == Init /\ [][NextSeq]_vars

----------------------------------------------------------------------------
(* What a step did *)

DownEvent == \E d \in Devs, code \in Keys : KeyDown(d, code)
UpEvent == \E d \in Devs, code \in Keys : KeyUp(d, code)
UpOf(code) == \E d \in Devs : KeyUp(d, code)

ActivationDispatched == activations' = activations + 1
DeactivationDispatched == deactivations' = deactivations + 1
NothingDispatched == activations' = activations /\ deactivations' = deactivations

BecomesActive == ~combination_active /\ combination_active'
BecomesInactive == combination_active /\ ~combination_active'

----------------------------------------------------------------------------
(* C1 *)

\* C1 as stated: every change of CombinationState dispatches its callback
\* exactly once and no callback is dispatched without its change.  Refuted:
\* a Down event that breaks the match resets Active to Inactive silently.
C1_EveryChangeDispatches ==
    [][ /\ BecomesActive => ActivationDispatched /\ deactivations' = deactivations
        /\ BecomesInactive => DeactivationDispatched /\ activations' = activations
        /\ activations' # activations => ActivationDispatched /\ BecomesActive
        /\ deactivations' # deactivations => DeactivationDispatched /\ BecomesInactive
      ]_vars

\* C1, amended: every Inactive->Active change dispatches the activation
\* callback exactly once; an Active->Inactive change dispatches the
\* deactivation callback exactly once when an Up event caused it and nothing
\* when a Down event that left the combination unmatched caused it; no
\* callback is dispatched without its state change.
C1_ChangeDispatchesOnceExceptDownReset ==
    [][ /\ BecomesActive => ActivationDispatched /\ deactivations' = deactivations
        /\ BecomesInactive =>
             \/ UpEvent /\ DeactivationDispatched /\ activations' = activations
             \/ /\ DownEvent
                /\ ~keys_match(target_keys, pressed_keys')
                /\ NothingDispatched
        /\ activations' # activations => ActivationDispatched /\ BecomesActive
        /\ deactivations' # deactivations => DeactivationDispatched /\ BecomesInactive
      ]_vars

\* An activation, a deactivation, a second activation, then the silent reset
\* by a Down event.
C1_Witness ==
    /\ activations = 2
    /\ deactivations = 1
    /\ ~combination_active
    /\ last_event[1] = "down"

----------------------------------------------------------------------------
(* C2 *)

\* C2 as stated: with an activation dispatched and the state Active, an Up
\* event of a target key sets the state Inactive and dispatches the
\* deactivation callback once.  Refuted: the release is debounced.
C2_ReleaseAlwaysDeactivates ==
    [][ \A code \in target_keys :
          activations >= 1 /\ combination_active /\ UpOf(code)
          => ~combination_active' /\ DeactivationDispatched
      ]_vars

\* C2, amended: with an activation dispatched and the state Active, an Up
\* event of a target key processed more than 500 ms after the last
\* deactivation sets the state Inactive and dispatches the deactivation
\* callback exactly once; within 500 ms of the last deactivation it
\* dispatches nothing and leaves the state Active.
C2_ReleaseDeactivatesOutsideWindow ==
    [][ \A code \in target_keys :
          activations >= 1 /\ combination_active /\ UpOf(code)
          => IF now - last_release_time > debounce_time
             THEN /\ ~combination_active'
                  /\ DeactivationDispatched
                  /\ activations' = activations
             ELSE /\ combination_active'
                  /\ NothingDispatched
      ]_vars

\* The Up event of a target key has just dispatched a deactivation.
C2_Witness ==
    /\ activations >= 1
    /\ deactivations >= 1
    /\ ~combination_active
    /\ last_event[1] = "up"
    /\ last_event[2] \in target_keys
    /\ last_release_time = now

----------------------------------------------------------------------------
(* C4 *)

\* C4 as stated: two activations are more than 500 ms apart, and a Down
\* event that makes the combination match within 500 ms of the previous
\* activation dispatches nothing and leaves the state Inactive.  Refuted: a
\* release suppressed by its own debounce leaves the state Active with the
\* keys up, and the Down event leaves it Active.  The last conjunct states
\* the claim for a one-key target on an engine that was never stopped, so
\* that neither stop() nor a change of target is what left the state Active.
C4_DebouncedDownLeavesInactive ==
    [][ /\ activations' # activations =>
             /\ ActivationDispatched
             /\ now - last_trigger_time > debounce_time
             /\ last_trigger_time' = now
        /\ activations' = activations => last_trigger_time' = last_trigger_time
        /\ ( /\ DownEvent
             /\ Cardinality(target_keys) = 1
             /\ \A w \in Workers : wpc[w] # "dead"
             /\ ~keys_match(target_keys, pressed_keys)
             /\ keys_match(target_keys, pressed_keys')
             /\ now - last_trigger_time <= debounce_time )
           => activations' = activations /\ ~combination_active'
      ]_vars

\* C4, amended: last_trigger_time is the time of the latest activation
\* dispatch and every dispatch comes more than 500 ms after it; a Down event
\* after which the combination matches, within 500 ms of the previous
\* activation, dispatches nothing and leaves the state as it was.
C4_DebouncedDownChangesNothing ==
    [][ /\ activations' # activations =>
             /\ ActivationDispatched
             /\ now - last_trigger_time > debounce_time
             /\ last_trigger_time' = now
        /\ activations' = activations => last_trigger_time' = last_trigger_time
        /\ ( /\ DownEvent
             /\ keys_match(target_keys, pressed_keys')
             /\ now - last_trigger_time <= debounce_time )
           => /\ NothingDispatched
              /\ combination_active' = combination_active
      ]_vars

\* A Down event completed the combination inside the window: it matches,
\* nothing more was dispatched and the state is Inactive.
C4_Witness ==
    /\ activations = 1
    /\ deactivations = 1
    /\ last_event[1] = "down"
    /\ keys_match(target_keys, pressed_keys)
    /\ ~combination_active
    /\ now - last_trigger_time <= debounce_time

----------------------------------------------------------------------------
(* C5 *)

\* C5: in state Active with the combination matching before and after, a
\* Down event dispatches no activation and leaves last_trigger_time alone.
C5_ActiveDownNeverRefires ==
    [][ ( /\ DownEvent
          /\ combination_active
          /\ keys_match(target_keys, pressed_keys)
          /\ keys_match(target_keys, pressed_keys') )
        => /\ activations' = activations
           /\ last_trigger_time' = last_trigger_time
           /\ combination_active'
      ]_vars

\* Active and matching, the last event a Down, and the one activation older
\* than the debounce window.
C5_Witness ==
    /\ combination_active
    /\ keys_match(target_keys, pressed_keys)
    /\ last_event[1] = "down"
    /\ activations = 1
    /\ now - last_trigger_time > debounce_time

----------------------------------------------------------------------------
(* C6 *)

\* C6: with a one-key target, an activation is dispatched only by a step
\* after which the pressed set equals the target, and a Down event after
\* which another key is held too dispatches nothing and leaves the state
\* Inactive.
C6_ExactPolicy ==
    [][ Cardinality(target_keys) = 1 =>
          /\ activations' # activations => pressed_keys' = target_keys
          /\ (DownEvent /\ pressed_keys' # target_keys)
             => activations' = activations /\ ~combination_active'
      ]_vars

\* The target key went down last, another key is held with it, and nothing
\* was ever dispatched.
C6_Witness ==
    /\ Cardinality(target_keys) = 1
    /\ last_event[1] = "down"
    /\ last_event[2] \in target_keys
    /\ target_keys \subseteq pressed_keys
    /\ pressed_keys # target_keys
    /\ ~combination_active
    /\ activations = 0

----------------------------------------------------------------------------
(* C7 *)

\* C7: with a target of two or more keys, a Down event after which target is
\* a subset of the pressed set, in state Inactive and more than 500 ms after
\* the last activation, dispatches the activation callback and sets the
\* state Active, whatever else is held.
C7_SubsetPolicy ==
    [][ ( /\ Cardinality(target_keys) >= 2
          /\ DownEvent
          /\ target_keys \subseteq pressed_keys'
          /\ ~combination_active
          /\ now - last_trigger_time > debounce_time )
        => /\ ActivationDispatched
           /\ combination_active'
           /\ last_trigger_time' = now
      ]_vars

\* A target key went down last with a non-target key held, and the first
\* activation was dispatched at this instant.
C7_Witness ==
    /\ Cardinality(target_keys) >= 2
    /\ last_event[1] = "down"
    /\ last_event[2] \in target_keys
    /\ target_keys \subseteq pressed_keys
    /\ pressed_keys # target_keys
    /\ combination_active
    /\ activations = 1
    /\ last_trigger_time = now

----------------------------------------------------------------------------
(* C8 *)

\* C8: an Up event of a key outside the target, with every target key still
\* in the pressed set, dispatches no deactivation and leaves the state and
\* last_release_time as they were.
C8_NonTargetUpIsSilent ==
    [][ \A code \in Keys \ target_keys :
          (UpOf(code) /\ target_keys \subseteq pressed_keys)
          => /\ NothingDispatched
             /\ combination_active' = combination_active
             /\ last_release_time' = last_release_time
      ]_vars

\* Active, the last event the Up of a non-target key, the target still held
\* and no deactivation dispatched.
C8_Witness ==
    /\ combination_active
    /\ last_event[1] = "up"
    /\ last_event[2] \notin target_keys
    /\ target_keys \subseteq pressed_keys
    /\ activations = 1
    /\ deactivations = 0

----------------------------------------------------------------------------
(* C9 *)

\* C9 as stated: a stop() of a running engine leaves the device set empty,
\* the pressed set empty, the state Inactive and is_running false.  Refuted
\* by the code: stop() never assigns combination_active.
C9_StopResetsState ==
    [][ (is_running /\ ~is_running')
        => /\ devices' = {}
           /\ pressed_keys' = {}
           /\ ~combination_active'
      ]_vars

----------------------------------------------------------------------------
(* C3, under SpecHeld *)

\* C3 as stated: a read failure evicts its device and leaves the poll loop
\* running and the other device registered, and afterwards the press of the
\* target keys on the one remaining keyboard (after the Down event exactly
\* the target is down on it), in state Inactive and outside the activation
\* window, dispatches the activation callback.  Refuted by the code: the keys
\* that were down on the evicted keyboard stay in pressed_keys.
C3_RemainingDeviceActivates ==
    [][ /\ \A d \in Devs :
             ReadFailure(d) => /\ devices' = devices \ {d}
                               /\ wpc' = wpc
                               /\ is_running' = is_running
        /\ \A d \in Devs, code \in Keys :
             ( /\ KbdDown(d, code)
               /\ devices = {d}
               /\ held'[d] = target_keys
               /\ ~combination_active
               /\ now - last_trigger_time > debounce_time )
             => ActivationDispatched /\ combination_active'
      ]_vars

----------------------------------------------------------------------------
(* C10, under SpecLife *)

Alive == {w \in Workers : is_alive(w)}

\* C10 as stated: under every interleaving of start() and stop() calls from
\* concurrent threads at most one poll-loop thread is alive, and a start()
\* that finds the engine running returns True and creates no thread.
\* Refuted by the code: start() tests is_running and sets it five statements
\* later, with no lock.
C10_SinglePoller ==
    [][ /\ Cardinality(Alive') <= 1
        /\ \A c \in Callers :
             (cpc[c] = "start_check" /\ cpc'[c] = "idle" /\ is_running)
             => /\ cret'[c] = "True"
                /\ wpc' = wpc
                /\ listener_thread' = listener_thread
      ]_vars

----------------------------------------------------------------------------
(* update_shortcut() and get_status() called from other threads while the
   poll-loop thread handles key events.  _check_shortcut_combination reads
   self.target_keys twice, update_shortcut assigns two fields one after the
   other, get_status reads them one after the other, and nothing locks. *)

\* if len(self.target_keys) == 1: the branch taken
read_policy == IF Cardinality(target_keys) = 1 THEN "exact" ELSE "subset"

\* the second read of self.target_keys, in the branch taken
keys_match_in(branch, target, pressed) ==
    IF branch = "exact"
    THEN target = pressed
    ELSE target \subseteq pressed

\* if keys_match: ... else: self.combination_active = False
check_shortcut_combination_after(match) ==
    IF match
    THEN IF ~combination_active /\ now - last_trigger_time > debounce_time
         THEN /\ last_trigger_time' = now
              /\ combination_active' = TRUE
              /\ trigger_callback
         ELSE UNCHANGED <<last_trigger_time, combination_active, activations>>
    ELSE /\ combination_active' = FALSE
         /\ UNCHANGED <<last_trigger_time, activations>>

\* A Down event up to the test of len(self.target_keys)
DownRead(d, code) ==
    /\ \E w \in Workers : Polling(w)
    /\ Readable(d)
    /\ policy = "none"
    /\ pressed_keys' = pressed_keys \cup {code}
    /\ last_event' = <<"down", code>>
    /\ policy' = read_policy
    /\ UNCHANGED <<config, life, now, held, cpc, cret, last_trigger_time,
                   combination_active, last_release_time, activations,
                   deactivations, evaluated, update_call, status_call,
                   cb_ended>>

\* The rest of _check_shortcut_combination
DownMatch ==
    /\ policy # "none"
    /\ check_shortcut_combination_after(
           keys_match_in(policy, target_keys, pressed_keys))
    /\ evaluated' = <<policy, target_keys>>
    /\ policy' = "none"
    /\ UNCHANGED <<config, life, now, held, cpc, cret, pressed_keys,
                   last_release_time, deactivations, last_event,
                   update_call, status_call, cb_ended>>

\* An Up event: _check_combination_release reads self.target_keys once
UpWhole(d, code) ==
    /\ policy = "none"
    /\ KeyUp(d, code)

\* new_target_keys = self._parse_key_combination(new_key)
UpdateParse(new_key) ==
    /\ update_call.pc = "idle"
    /\ update_call' = [pc |-> "primary_key", new_key |-> new_key,
                       new_target_keys |-> parse_key_combination(new_key)]
    /\ UNCHANGED <<config, life, engine, now, held, cpc, cret, policy,
                   evaluated, status_call, cb_ended>>

\* self.primary_key = new_key
UpdateKey ==
    /\ update_call.pc = "primary_key"
    /\ primary_key' = update_call.new_key
    /\ update_call' = [update_call EXCEPT !.pc = "target_keys"]
    /\ UNCHANGED <<target_keys, life, engine, now, held, cpc, cret, policy,
                   evaluated, status_call, cb_ended>>

\* self.target_keys = new_target_keys
UpdateTarget ==
    /\ update_call.pc = "target_keys"
    /\ target_keys' = update_call.new_target_keys
    /\ update_call' = NoUpdate
    /\ UNCHANGED <<primary_key, life, engine, now, held, cpc, cret, policy,
                   evaluated, status_call, cb_ended>>

\* 'primary_key': self.primary_key
StatusKey ==
    /\ status_call.pc \in {"idle", "done"}
    /\ status_call' = [pc |-> "target_keys", primary_key |-> primary_key,
                       target_keys |-> {}]
    /\ UNCHANGED <<config, life, engine, now, held, cpc, cret, policy,
                   evaluated, update_call, cb_ended>>

\* 'target_keys': [... for k in self.target_keys]
StatusTarget ==
    /\ status_call.pc = "target_keys"
    /\ status_call' = [status_call EXCEPT !.pc = "done",
                                          !.target_keys = target_keys]
    /\ UNCHANGED <<config, life, engine, now, held, cpc, cret, policy,
                   evaluated, update_call, cb_ended>>

NextRace ==
    \/ \E d \in Devs, code \in Keys : DownRead(d, code)
    \/ DownMatch
    \/ \E d \in Devs, code \in Keys : UpWhole(d, code)
    \/ \E new_key \in Shortcuts : UpdateParse(new_key)
    \/ UpdateKey
    \/ UpdateTarget
    \/ StatusKey
    \/ StatusTarget
    \/ \E found \in SUBSET Devs : start(found)

SpecRace == Init /\ [][NextRace]_vars

----------------------------------------------------------------------------
(* The callback threads.  _trigger_callback and _trigger_release_callback
   start one daemon thread per dispatch; it runs the registered callback and
   ends when the callback returns or raises (the exception ends that thread
   only).  A callback that blocks forever is a thread that never ends. *)

callbacks_running == activations + deactivations - cb_ended

CallbackEnds ==
    /\ callbacks_running > 0
    /\ cb_ended' = cb_ended + 1
    /\ UNCHANGED <<config, life, engine, now, held, cpc, cret, policy,
                   evaluated, update_call, status_call>>

NextCallbacks ==
    \/ Next
    \/ CallbackEnds

SpecCallbacks == Init /\ [][NextCallbacks]_vars

----------------------------------------------------------------------------
(* The parser on its own: the engine is updated to every combination string
   of up to MaxTokens tokens joined by '+'.  Each
   token is listed with the key code its name stands for in KEY_ALIASES and
   evdev's ecodes (None: no such key). *)

TokenKey ==
    (<<"C","t","r","l">> :> KEY_LEFTCTRL) @@
    (<<"l","c","t","r","l">> :> KEY_LEFTCTRL) @@
    (<<"D">> :> KEY_D) @@
    (<<"<","f","1","2",">">> :> KEY_F12) @@
    (<<"F","1","2">> :> KEY_F12) @@
    (<<"b","o","g","u","s">> :> None) @@
    (<<>> :> None)

Tokens == DOMAIN TokenKey

TokenSeqs == UNION {[1..n -> Tokens] : n \in 1..MaxTokens}

RECURSIVE join(_)
join(ts) ==
    IF Len(ts) = 1 THEN ts[1] ELSE ts[1] \o <<"+">> \o join(Tail(ts))

Inputs == {join(ts) : ts \in TokenSeqs}

\* The tokens a combination string was joined from
tokens_of == [s \in Inputs |-> CHOOSE ts \in TokenSeqs : join(ts) = s]

\* The key codes the tokens of a combination string stand for
named_keys == [s \in Inputs |->
                 {TokenKey[tokens_of[s][i]] : i \in 1..Len(tokens_of[s])} \ {None}]

NextParse == \E new_key \in Inputs : update_shortcut(new_key)

SpecParse == Init /\ [][NextParse]_vars

----------------------------------------------------------------------------
(* stop() with no start() called after it: start() is called only while no
   stop() has set the stop signal or returned.  The poll-loop threads are
   scheduled fairly: a thread that can take its next step takes it. *)

stop_called ==
    \E c \in Callers :
        \/ cpc[c] \in {"stop_join", "stop_close", "stop_flag", "stop_clear"}
        \/ cret[c] = "None"

CallStartBeforeStop(c) ==
    /\ ~stop_called
    /\ CallStart(c)

NextStop ==
    \/ \E c \in Callers : CallStartBeforeStop(c)
    \/ \E c \in Callers : CallStop(c)
    \/ \E c \in Callers : StartCheck(c)
    \/ \E c \in Callers, found \in SUBSET Devs : StartDiscover(c, found)
    \/ \E c \in Callers : StartNoDevices(c)
    \/ \E c \in Callers : StartClear(c)
    \/ \E c \in Callers : StartThread(c)
    \/ \E c \in Callers : StartFlag(c)
    \/ \E c \in Callers : StopCheck(c)
    \/ \E c \in Callers : StopSet(c)
    \/ \E c \in Callers : StopJoin(c)
    \/ \E c \in Callers : StopClose(c)
    \/ \E c \in Callers : StopFlag(c)
    \/ \E c \in Callers : StopClear(c)
    \/ \E w \in Workers : LoopTest(w)
    \/ \E w \in Workers : LoopWait(w)

FairWorkers ==
    \A w \in Workers : WF_vars(LoopTest(w)) /\ WF_vars(LoopWait(w))

SpecStop == Init /\ [][NextStop]_vars /\ FairWorkers

----------------------------------------------------------------------------
(* C11 *)

\* C11 as stated: stop() closes the devices only when no poll-loop thread is
\* alive.  Refuted: join(timeout=1.0) returns after the timeout with the
\* thread still alive and stop() goes on to close the devices.
C11_CloseAfterWorkerExit ==
    [][ \A c \in Callers :
          cpc[c] = "stop_close" /\ cpc'[c] = "stop_flag" /\ devices # {}
          => Alive = {}
      ]_vars

----------------------------------------------------------------------------
(* C12 *)

\* C12 as stated: every match evaluation of the poll loop uses the policy
\* and the target set of one combination (Exact with a one-key target, Subset
\* otherwise), and a status snapshot reports the string and the target keys
\* of one combination.  Refuted: update_shortcut can run between the two
\* reads of either.
C12_UpdateIsAtomic ==
    /\ evaluated[1] # "none" =>
         (evaluated[1] = "exact" <=> Cardinality(evaluated[2]) = 1)
    /\ status_call.pc = "done" =>
         status_call.target_keys = parse_key_combination(status_call.primary_key)

----------------------------------------------------------------------------
(* C13 *)

\* C13: start() on an engine that is not running makes one discovery pass
\* when self.devices is empty and none when it is not; no other statement
\* of start() changes the devices; with the devices still empty it returns
\* False, starts no thread and leaves is_running False, and that is the only
\* way start() returns False.  A later call follows the same rule.
C13_StartWithoutDevices ==
    [][ /\ cpc["t1"] = "start_discover" /\ cpc'["t1"] = "start_nodev" =>
             /\ ~is_running
             /\ devices # {} => devices' = devices /\ device_fds' = device_fds
             /\ devices = {} => device_fds' = devices'
        /\ cpc["t1"] \in {"start_check", "start_nodev", "start_clear",
                          "start_thread", "start_flag"}
             => devices' = devices /\ device_fds' = device_fds
        /\ cpc["t1"] = "start_nodev" /\ cpc'["t1"] # "start_nodev"
             /\ devices = {} =>
             /\ cpc'["t1"] = "idle"
             /\ cret'["t1"] = "False"
             /\ ~is_running'
             /\ wpc' = wpc
             /\ listener_thread' = listener_thread
        /\ cpc["t1"] # "idle" /\ cpc'["t1"] = "idle" /\ cret'["t1"] = "False"
             => cpc["t1"] = "start_nodev" /\ devices = {}
      ]_vars

\* A start() that returned False for want of devices is being retried, and
\* the discovery pass of the retry has found a keyboard.
C13_Witness ==
    /\ cret["t1"] = "False"
    /\ cpc["t1"] = "start_nodev"
    /\ devices # {}
    /\ ~is_running
    /\ Alive = {}

----------------------------------------------------------------------------
(* C14 *)

\* C14: a callback runs on a thread of its own.  The end of a callback, by
\* return or by an exception, changes nothing of the engine and leaves the
\* poll-loop thread where it is; and whatever number of callbacks are still
\* running or blocked, a poll-loop thread that is polling processes the next
\* Down or Up event of every registered device, and a change to Active made
\* by that event dispatches its callback.
C14_CallbackIsolation ==
    [][ /\ cb_ended' # cb_ended => UNCHANGED <<config, life, engine>>
        /\ \A d \in Devs, code \in Keys :
             (\E w \in Workers : wpc[w] = "loop") /\ ~stop_event
               /\ d \in devices /\ d \in device_fds
             => (ENABLED KeyDown(d, code)) /\ (ENABLED KeyUp(d, code))
        /\ BecomesActive => ActivationDispatched
      ]_vars

\* Two callbacks are still running (or blocked), one has ended, and the
\* poll loop has dispatched a third one since.
C14_Witness ==
    /\ callbacks_running >= 2
    /\ cb_ended >= 1
    /\ activations >= 2
    /\ combination_active
    /\ last_event[1] = "down"

----------------------------------------------------------------------------
(* C15 *)

\* C15: after construction and after every update_shortcut, the target set
\* is not empty: it holds the keys named by the tokens that resolve, the
\* other tokens being skipped, and it is {KEY_F12} when no token resolves.
C15_TargetNeverEmpty ==
    /\ target_keys # {}
    /\ target_keys = IF named_keys[primary_key] = {}
                     THEN {KEY_F12}
                     ELSE named_keys[primary_key]

\* The engine was updated to "bogus+D": one token skipped, one kept.
C15_Witness ==
    /\ primary_key = <<"b","o","g","u","s","+","D">>
    /\ target_keys = {KEY_D}

----------------------------------------------------------------------------
(* C16 *)

\* C16: an update from one combination string to another whose tokens all
\* resolve and name the same keys, in whatever casing, alias, angle
\* brackets and order, leaves the target set as it is.
C16_ParseIgnoresSpelling ==
    [][ /\ primary_key' # primary_key
        /\ named_keys[primary_key'] = named_keys[primary_key]
        /\ \A i \in 1..Len(tokens_of[primary_key]) :
             TokenKey[tokens_of[primary_key][i]] # None
        /\ \A i \in 1..Len(tokens_of[primary_key']) :
             TokenKey[tokens_of[primary_key'][i]] # None
        => target_keys' = target_keys
      ]_vars

\* "Ctrl+D" was respelt "D+lctrl".
C16_Witness ==
    /\ primary_key = <<"D","+","l","c","t","r","l">>
    /\ target_keys = {KEY_LEFTCTRL, KEY_D}

----------------------------------------------------------------------------
(* C17 *)

\* C17: a step that changes primary_key or target_keys (update_shortcut)
\* changes nothing else: pressed keys, state, both debounce clocks, devices,
\* running flag and poll-loop threads stay as they are and no callback is
\* dispatched.
C17_UpdateChangesOnlyCombination ==
    [][ primary_key' # primary_key \/ target_keys' # target_keys
        => /\ UNCHANGED <<pressed_keys, combination_active, last_trigger_time,
                          last_release_time>>
           /\ UNCHANGED <<devices, device_fds, is_running, listener_thread,
                          stop_event, wpc>>
           /\ NothingDispatched
      ]_vars

\* The engine went Active on F12 and was then updated to Ctrl+D: F12 is
\* still pressed and the state is still Active.
C17_Witness ==
    /\ primary_key = S_CtrlD
    /\ target_keys = {KEY_LEFTCTRL, KEY_D}
    /\ pressed_keys = {KEY_F12}
    /\ combination_active
    /\ activations = 1
    /\ deactivations = 0
    /\ is_running

----------------------------------------------------------------------------
(* C18 *)

\* C18: a Down event after which the combination does not match leaves the
\* state Inactive whatever it was, dispatches no callback and changes
\* neither debounce clock.
C18_UnmatchedDownResets ==
    [][ DownEvent /\ ~keys_match(target_keys, pressed_keys')
        => /\ ~combination_active'
           /\ NothingDispatched
           /\ UNCHANGED <<last_trigger_time, last_release_time>>
      ]_vars

\* F12 went Active and D was pressed on top of it: the Exact match is broken
\* and the state is Inactive with no deactivation dispatched.
C18_Witness ==
    /\ target_keys = {KEY_F12}
    /\ pressed_keys = {KEY_F12, KEY_D}
    /\ last_event = <<"down", KEY_D>>
    /\ ~combination_active
    /\ activations = 1
    /\ deactivations = 0

----------------------------------------------------------------------------
(* C19 *)

\* C19: an Up event removes its key from the pressed keys, never dispatches
\* the activation callback, never changes last_trigger_time and never makes
\* the state Active; unless the state was Active, the target is no longer a
\* subset of the pressed keys and more than 500 ms have passed since the
\* last deactivation, it also leaves the state and last_release_time as
\* they are and dispatches nothing.
C19_UpChangesLittle ==
    [][ \A code \in Keys :
          UpOf(code)
          => /\ pressed_keys' = pressed_keys \ {code}
             /\ activations' = activations
             /\ last_trigger_time' = last_trigger_time
             /\ combination_active' => combination_active
             /\ ~( /\ combination_active
                   /\ ~(target_keys \subseteq pressed_keys \ {code})
                   /\ now - last_release_time > debounce_time )
                => /\ UNCHANGED <<combination_active, last_release_time>>
                   /\ NothingDispatched
      ]_vars

\* A release exactly 500 ms after the last deactivation: the target is
\* broken, the state is still Active and nothing was dispatched.
C19_Witness ==
    /\ combination_active
    /\ last_event[1] = "up"
    /\ last_event[2] \in target_keys
    /\ ~(target_keys \subseteq pressed_keys)
    /\ now - last_release_time = debounce_time
    /\ deactivations = 1

----------------------------------------------------------------------------
(* C20 *)

\* C20: a dispatched activation leaves last_release_time alone and a
\* dispatched deactivation leaves last_trigger_time alone; a Down event that
\* makes the combination match in state Inactive more than 500 ms after the
\* last activation dispatches the activation whatever last_release_time is,
\* and an Up event that breaks the target in state Active more than 500 ms
\* after the last deactivation dispatches the deactivation whatever
\* last_trigger_time is.
C20_IndependentClocks ==
    [][ /\ ActivationDispatched => last_release_time' = last_release_time
        /\ DeactivationDispatched => last_trigger_time' = last_trigger_time
        /\ DownEvent /\ ~combination_active
             /\ keys_match(target_keys, pressed_keys')
             /\ now - last_trigger_time > debounce_time
           => ActivationDispatched /\ last_trigger_time' = now
        /\ UpEvent /\ combination_active
             /\ ~(target_keys \subseteq pressed_keys')
             /\ now - last_release_time > debounce_time
           => DeactivationDispatched /\ last_release_time' = now
      ]_vars

\* The second activation was dispatched within 500 ms of the deactivation
\* before it.
C20_Witness ==
    /\ activations = 2
    /\ deactivations = 1
    /\ combination_active
    /\ last_event[1] = "down"
    /\ last_trigger_time = now
    /\ now - last_release_time <= debounce_time

----------------------------------------------------------------------------
(* C22 *)

\* C22 as stated: in every state with combination_active True, every target
\* key is in pressed_keys.  Refuted on an engine that was never stopped:
\* update_shortcut replaces the target and leaves the state Active, and an
\* Up event inside the release debounce window removes a target key and
\* leaves the state Active.
C22_ActiveImpliesHeld ==
    combination_active /\ (\A w \in Workers : wpc[w] # "dead")
    => target_keys \subseteq pressed_keys

\* C22, amended: a step that makes the state Active is a Down event after
\* which every target key is pressed; and a step that leaves the state
\* Active with a target key not pressed, from a state where that was not so,
\* is an Up event within 500 ms of the last deactivation, an update_shortcut
\* or a stop().
C22_ActiveHeldWhenSet ==
    [][ /\ BecomesActive =>
             /\ DownEvent
             /\ target_keys' = target_keys
             /\ target_keys \subseteq pressed_keys'
             /\ ActivationDispatched
        /\ (combination_active => target_keys \subseteq pressed_keys)
             /\ combination_active'
             /\ ~(target_keys' \subseteq pressed_keys')
           => \/ UpEvent /\ now - last_release_time <= debounce_time
              \/ \E s \in Shortcuts : update_shortcut(s)
              \/ stop
      ]_vars

\* After a stop() and a new start(), Ctrl and D went down and the state
\* became Active with both pressed.
C22_Witness ==
    /\ combination_active
    /\ Cardinality(target_keys) = 2
    /\ target_keys \subseteq pressed_keys
    /\ last_trigger_time = now
    /\ activations = 1
    /\ \E w \in Workers : wpc[w] = "dead"

----------------------------------------------------------------------------
(* C23 *)

\* C23: a deactivation is dispatched only in state Active and leaves the
\* state Inactive, and the state becomes Active only by a dispatched
\* activation; the state being Inactive at construction, every dispatched
\* deactivation follows an activation with no deactivation between them,
\* and there are never more deactivations than activations.
C23_DeactivationFollowsActivation ==
    [][ /\ DeactivationDispatched =>
             /\ combination_active
             /\ ~combination_active'
             /\ activations' = activations
        /\ BecomesActive => ActivationDispatched
        /\ deactivations # deactivations' => DeactivationDispatched
        /\ deactivations' <= activations'
      ]_vars

\* Two activations, each followed by its deactivation.
C23_Witness ==
    /\ activations = 2
    /\ deactivations = 2
    /\ ~combination_active
    /\ last_event[1] = "up"
    /\ last_release_time = now

----------------------------------------------------------------------------
(* C21 *)

\* C21 as stated: once stop() has set the stop signal and no start() is
\* called afterwards, every poll-loop thread alive at that time eventually
\* ends, the threads being scheduled fairly.  Refuted: a start() already
\* past its is_running test clears the signal before the thread tests it.
C21_StopLiveness ==
    \A w \in Workers : (stop_event /\ is_alive(w)) ~> ~is_alive(w)

====
